---- MODULE Spec2Model ----
(***************************************************************************)
(* Model of the Elm LSP editor client (src/src/extension.ts): the server   *)
(* supervisor (activate, restart-server, deactivate, the transport error   *)
(* and close callbacks), the operations that send requests over the        *)
(* current connection, and the rename interception.                        *)
(*                                                                         *)
(* The program is single-threaded and cooperatively scheduled: every       *)
(* action below is the code that runs between two suspension points (an    *)
(* await) of one handler, or one step of the language-client library or of *)
(* the environment (file system, user, server process).                    *)
(***************************************************************************)
EXTENDS Integers, Sequences, FiniteSets, TLC

\* ------------------------------------------------------------------ bounds
MaxRestarts == 2      \* restart-server invocations explored
MaxBatch == 2         \* pairs in one rename batch
MaxRedirects == 2     \* redirects one download is answered with
MaxRefs == 3          \* locations in one references response

\* --------------------------------------------------------------- constants
NoClient == 0         \* `let client: LanguageClient | undefined` (undefined)

\* The value the transport error callback answers: `return { action: 1 }`.
ErrorHandlerAction == 1
\* The value the transport close callback answers: `return { action: 2 }`.
ClosedHandlerAction == 2

RestartIds == 1..MaxRestarts

\* a locator that prefers the installed binary to the configured one
CandidatesInstalledFirst == <<"installed", "config", "devRelease", "devDebug">>
\* Candidate binary locations, in the order findServerBinary tries them.
\* "config" stands for the path of the setting elm-lsp.server.path: it exists
\* when the setting is non-empty and fs.existsSync answers true for it.
Candidates == <<"config", "installed", "devRelease", "devDebug">>
CandidateSet == {Candidates[i] : i \in 1..Len(Candidates)}
\* The locations the environment creates and removes while the supervisor runs.
Volatile == {"config", "installed"}

VARIABLES
    fsExists,      \* the candidate binaries that exist on disk (fs.existsSync)
    client,        \* module variable `client`: NoClient or an index into conns
    conns,         \* every LanguageClient object constructed so far
    isRestarting,  \* module variable `isRestarting`
    apc,           \* position of activate()
    rpc,           \* position of each restart-server invocation
    rawait,        \* the connection whose promise a restart invocation awaits
    dpc,           \* position of deactivate()
    dawait,        \* the connection whose stop promise deactivate() awaits
    messages,      \* notifications shown to the user (vscode.window.show*Message)
    log,           \* lines appended to the output channel
    cmd,           \* one operation that sends a single request (a command or an
                   \* annotation step): its kind, position and request
    ren,           \* the rename interception (onWillRenameFiles): its position,
                   \* event.files, the filtered pairs, the pair in progress and
                   \* its request
    wedit,         \* the `workspaceEdit` the rename interception accumulates
    sent,          \* the commands the rename interception has sent, in order
    inst           \* the installer (downloadBinary): the platform it runs on,
                   \* the release it is offered, its position, the destination
                   \* file and the error it ends with

reqVars == <<cmd, ren, wedit, sent>>
vars == <<fsExists, client, conns, isRestarting, apc, rpc, rawait,
          dpc, dawait, messages, log, cmd, ren, wedit, sent, inst>>

\* ------------------------------------------------- the library's enumerations
\* vscode-languageclient: enum ErrorAction { Continue = 1, Shutdown = 2 }
ErrorActionOf(n) == IF n = 1 THEN "Continue" ELSE "Shutdown"
\* vscode-languageclient: enum CloseAction { DoNotRestart = 1, Restart = 2 }
CloseActionOf(n) == IF n = 1 THEN "DoNotRestart" ELSE "Restart"

\* what the callbacks of `errorHandler` tell the library to do
ErrorCallbackShutdown == ErrorActionOf(ErrorHandlerAction + 1)
ErrorCallback == ErrorActionOf(ErrorHandlerAction)
ClosedCallback == CloseActionOf(ClosedHandlerAction)

\* --------------------------------------------------------- connection state
ConnIds == 1..Len(conns)
Live(c) == conns[c].state \in {"Starting", "Running"}
LiveConns == {c \in ConnIds : Live(c)}

NewConn(path) ==
    [state |-> "Starting", startP |-> "pending", stopP |-> "none", path |-> path]

\* ------------------------------------------------------------ Binary Locator
RECURSIVE FirstExisting(_, _)
FirstExisting(i, exists) ==
    IF i > Len(Candidates) THEN ""
    ELSE IF Candidates[i] \in exists THEN Candidates[i]
    ELSE FirstExisting(i + 1, exists)

\* findServerBinary: the first candidate that exists, "" for undefined.
findServerBinary(exists) == FirstExisting(1, exists)

\* -------------------------------------------------------------------- paths
\* A path is the sequence of its characters.
Ext == <<".", "e", "l", "m">>                       \* '.elm'

\* String.prototype.endsWith
EndsWith(s, suf) ==
    /\ Len(s) >= Len(suf)
    /\ SubSeq(s, Len(s) - Len(suf) + 1, Len(s)) = suf

\* index of the last "/" of s, 0 when there is none
LastSlash(s) ==
    LET idx == {i \in 1..Len(s) : s[i] = "/"} IN
    IF idx = {} THEN 0 ELSE CHOOSE i \in idx : \A j \in idx : j <= i

\* path.dirname and path.basename (POSIX, paths without a trailing slash)
dirname(s) ==
    LET i == LastSlash(s) IN
    IF i = 0 THEN <<".">> ELSE IF i = 1 THEN <<"/">> ELSE SubSeq(s, 1, i - 1)
basename(s) == SubSeq(s, LastSlash(s) + 1, Len(s))

\* the segments of an absolute path: "/p/s/A.elm" -> <<"p", "s", "A.elm">>
RECURSIVE Segments(_)
Segments(s) ==
    IF s = <<>> THEN <<>>
    ELSE IF Head(s) = "/" THEN Segments(Tail(s))
    ELSE LET cut == {i \in 1..Len(s) : s[i] = "/"}
             n == IF cut = {} THEN Len(s) + 1 ELSE CHOOSE i \in cut : \A j \in cut : i <= j
         IN <<SubSeq(s, 1, n - 1)>> \o Segments(SubSeq(s, n, Len(s)))

RECURSIVE CommonLen(_, _)
CommonLen(a, b) ==
    IF a = <<>> \/ b = <<>> \/ Head(a) # Head(b) THEN 0
    ELSE 1 + CommonLen(Tail(a), Tail(b))

RECURSIVE Join(_)
Join(segs) ==
    IF segs = <<>> THEN <<>>
    ELSE IF Len(segs) = 1 THEN segs[1]
    ELSE segs[1] \o <<"/">> \o Join(Tail(segs))

\* path.relative(from, to) for absolute POSIX paths
relative(from, to) ==
    LET f == Segments(from)
        t == Segments(to)
        k == CommonLen(f, t)
        ups == [i \in 1..(Len(f) - k) |-> <<".", ".">>]
    IN Join(ups \o SubSeq(t, k + 1, Len(t)))

\* the workspace roots of the editor window
WorkspaceFolders == {<<"/", "p">>}

\* vscode.workspace.getWorkspaceFolder: the root that contains the file, <<>>
\* when no root does
getWorkspaceFolder(path) ==
    LET owning == {w \in WorkspaceFolders :
                     LET ws == Segments(w) IN
                     /\ Len(Segments(path)) > Len(ws)
                     /\ SubSeq(Segments(path), 1, Len(ws)) = ws}
    IN IF owning = {} THEN <<>>
       ELSE CHOOSE w \in owning : \A v \in owning : Len(v) <= Len(w)

\* The rename pairs the editor reports, as (oldUri.fsPath, newUri.fsPath).
PA == <<"/", "p", "/", "A", ".", "e", "l", "m">>
PB == <<"/", "p", "/", "B", ".", "e", "l", "m">>
PSubA == <<"/", "p", "/", "s", "/", "A", ".", "e", "l", "m">>
PTxt == <<"/", "p", "/", "A", ".", "t", "x", "t">>
PElmDir == <<"/", "p", "/", "x", ".", "e", "l", "m", "/", "n">>
QA == <<"/", "q", "/", "A", ".", "e", "l", "m">>
PairTable == <<
    [old |-> PA, new |-> PB],          \* same directory: a rename
    [old |-> PA, new |-> PSubA],       \* another directory of the workspace: a move
    [old |-> QA, new |-> PB],          \* from outside every workspace root
    [old |-> PTxt, new |-> PElmDir],   \* neither path is a source file
    [old |-> PA, new |-> PTxt],        \* the new path is not a source file
    [old |-> PTxt, new |-> PA],        \* the old path is not a source file
    [old |-> PA, new |-> QA] >>        \* out of the workspace root that owns it
PairIds == 1..Len(PairTable)

RECURSIVE SeqsUpTo(_, _)
SeqsUpTo(S, n) ==
    IF n = 0 THEN {<<>>}
    ELSE LET shorter == SeqsUpTo(S, n - 1) IN
         shorter \cup {Append(q, x) : q \in {t \in shorter : Len(t) = n - 1}, x \in S}
\* a longer event: three source pairs and one pair that is not a source pair
LongBatch == <<1, 5, 2, 7>>
\* event.files of one rename event
Batches == SeqsUpTo(PairIds, MaxBatch) \cup {LongBatch}

\* ---------------------------------------------------------------- requests
\* client.sendRequest on connection t: the request is pending while the
\* client is Running or still Starting; a client in any other state (and an
\* undefined `client`) makes the call fail at once.
SendReply(t) ==
    IF t # NoClient /\ conns[t].state \in {"Running", "Starting"} THEN "pending" ELSE "lost"

\* a handler that sends on the handle it read when it was entered
IssueTargetCaptured(entry) == entry
\* The connection a request is sent on: the module variable `client`, read in
\* the statement that sends (`client.sendRequest`, `client!.sendRequest`).
\* `entry` is the value `client` had when the handler was entered.
IssueTarget(entry) == client

\* The connection c stopped, failed to start or closed: the library rejects
\* every request still pending on it.
LoseRequests(c) ==
    /\ cmd' = IF cmd.reply = "pending" /\ cmd.target = c
                THEN [cmd EXCEPT !.reply = "lost"] ELSE cmd
    /\ ren' = IF ren.reply = "pending" /\ ren.target = c
                THEN [ren EXCEPT !.reply = "lost"] ELSE ren

\* `await client.start()` settles: the server answered initialize (ok) or the
\* process could not be spawned or initialised. The awaiting handler resumes in
\* the same turn of the event loop, before any other event is delivered.
StartSettles(c, ok) ==
    /\ conns' = [conns EXCEPT ![c] =
                   [@ EXCEPT !.state = IF ok THEN "Running" ELSE "StartFailed",
                             !.startP = IF ok THEN "ok" ELSE "failed"]]
    /\ IF ok THEN UNCHANGED <<cmd, ren>> ELSE LoseRequests(c)

\* a CodeLens: its range <<start line, start character, end line, end
\* character>> and its command; provideCodeLenses makes it without a command
NoLens == [range |-> <<>>, title |-> "", command |-> "", arguments |-> <<>>]

\* lenses: what provideCodeLenses returned; lens: the CodeLens resolveCodeLens
\* was given and returns; response: the length of the references response
IdleCmd == [kind |-> "none", pc |-> "idle", target |-> NoClient, reply |-> "none",
            entry |-> NoClient, result |-> "none",
            lenses |-> <<>>, lens |-> NoLens, response |-> 0]
IdleRen == [pc |-> "idle", event |-> <<>>, files |-> <<>>, idx |-> 0, target |-> NoClient,
            reply |-> "none", entry |-> NoClient, outcomes |-> <<>>, returned |-> <<>>]

\* ------------------------------------------------------------ the Installer
\* process.platform and process.arch
Platforms == {"darwin", "linux", "win32", "freebsd"}
Archs == {"arm64", "x64", "ia32"}

\* getPlatformTarget: the release target of the platform, "throw" for
\* `throw new Error('Unsupported platform: ...')`
getPlatformTarget(platform, arch) ==
    IF platform = "darwin" THEN (IF arch = "arm64" THEN "darwin-arm64" ELSE "darwin-x64")
    ELSE IF platform = "linux" THEN "linux-x64"
    ELSE IF platform = "win32" THEN "win32-x64"
    ELSE "throw"

\* an asset name without the Windows extension
assetNameNoExtension(target, platform) == "elm_lsp-" \o target
\* `elm_lsp-${target}${process.platform === 'win32' ? '.exe' : ''}`
assetName(target, platform) ==
    "elm_lsp-" \o target \o (IF platform = "win32" THEN ".exe" ELSE "")

\* the asset names a release can carry, and the releases the API can answer
AssetUniverse == {"elm_lsp-darwin-arm64", "elm_lsp-linux-x64",
                  "elm_lsp-win32-x64.exe", "elm_lsp-win32-x64"}
Releases == SUBSET AssetUniverse
\* the body of the asset, as the chunks the response delivers
Bodies == {<<>>, <<"b1">>, <<"b1", "b2">>}

\* the installer before downloadBinary is called:
\*   assets     the names of releaseInfo.assets
\*   body       the body the download URL finally answers with
\*   data       what has been written to the destination file (the file exists
\*              when "installed" is in fsExists)
\*   exec       the destination's executable bit (chmod 0o755)
\*   requests   the https.get calls downloadFile has made
\*   unlinking  fs.unlink(dest) was called and has not completed
\*   err        the error downloadBinary rejected with, available: the asset
\*              names its message lists
IdleInst == [pc |-> "idle", platform |-> "linux", arch |-> "x64", assets |-> {},
             body |-> <<>>, target |-> "", data |-> <<>>, exec |-> FALSE,
             redirects |-> 0, requests |-> 0, unlinking |-> FALSE,
             err |-> "none", available |-> {}]

\* ------------------------------------------------------------------- Init
Init ==
    /\ fsExists \in SUBSET Volatile
    /\ client = NoClient
    /\ conns = <<>>
    /\ isRestarting = FALSE
    /\ apc = "idle"
    /\ rpc = [r \in RestartIds |-> "idle"]
    /\ rawait = [r \in RestartIds |-> NoClient]
    /\ dpc = "idle"
    /\ dawait = NoClient
    /\ messages = {}
    /\ log = {}
    /\ cmd = IdleCmd
    /\ ren = IdleRen
    /\ wedit = <<>>
    /\ sent = <<>>
    /\ inst = IdleInst

\* ------------------------------------------------------ startLanguageClient
\* `client = new LanguageClient(...)` then `client.start()`: the new object
\* replaces whatever `client` held and is Starting when the caller suspends.
ConnsAfterStart(path) == Append(conns, NewConn(path))
ClientAfterStart == Len(conns) + 1

\* extension host: activate() has returned and the handlers it registered are
\* still registered (they are registered only on the path that reaches
\* lines 349-506, and disposed when deactivate() is called).
Registered == apc = "active" /\ dpc = "idle"
ActivateReturned == apc \in {"active", "noop", "settings", "dlfailed", "startfailed"}

\* ---------------------------------------------------------------- activate
ActivateBegin ==
    /\ apc = "idle"
    /\ apc' = "find"
    /\ UNCHANGED <<inst, reqVars, fsExists, client, conns, isRestarting, rpc, rawait,
                   dpc, dawait, messages, log>>

\* resumes after `await findServerBinary(context)`
ActivateFound ==
    /\ apc = "find"
    /\ LET p == findServerBinary(fsExists) IN
         IF p = ""
           THEN /\ apc' = "prompt"
                /\ messages' = messages \cup {"Elm LSP binary not found. Download from GitHub?"}
                /\ UNCHANGED <<client, conns>>
           ELSE /\ conns' = ConnsAfterStart(p)
                /\ client' = ClientAfterStart
                /\ apc' = "start"
                /\ UNCHANGED messages
    /\ UNCHANGED <<inst, reqVars, fsExists, isRestarting, rpc, rawait, dpc, dawait, log>>

\* an activation that reports a prompt that was not answered with 'Download'
\* as an error
ActivateChoiceReportsError(choice) ==
    /\ apc = "prompt"
    /\ apc' = IF choice = "Download" THEN "download"
              ELSE IF choice = "Configure Path" THEN "settings" ELSE "noop"
    /\ messages' = IF choice = "Download" THEN messages
                   ELSE messages \cup {"Failed to start Elm LSP"}
    /\ UNCHANGED <<inst, reqVars, fsExists, client, conns, isRestarting, rpc, rawait,
                   dpc, dawait, log>>

\* resumes after the prompt: 'Download' goes on to downloadBinary; 'Configure
\* Path' opens the setting elm-lsp.server.path and returns ("settings"); a
\* dismissed prompt returns ("noop")
ActivateChoice(choice) ==
    /\ apc = "prompt"
    /\ apc' = IF choice = "Download" THEN "download"
              ELSE IF choice = "Configure Path" THEN "settings" ELSE "noop"
    /\ UNCHANGED <<inst, reqVars, fsExists, client, conns, isRestarting, rpc, rawait,
                   dpc, dawait, messages, log>>

\* resumes after `await downloadBinary(context)`
ActivateDownloaded(ok) ==
    /\ apc = "download"
    /\ IF ok
         THEN /\ fsExists' = fsExists \cup {"installed"}
              /\ conns' = ConnsAfterStart("installed")
              /\ client' = ClientAfterStart
              /\ apc' = "start"
              /\ UNCHANGED messages
         ELSE /\ messages' = messages \cup {"Failed to download"}
              /\ apc' = "dlfailed"
              /\ UNCHANGED <<fsExists, conns, client>>
    /\ UNCHANGED <<inst, reqVars, isRestarting, rpc, rawait, dpc, dawait, log>>

\* resumes after `await client.start()` inside startLanguageClient: on
\* success the handlers of lines 349-506 are registered, on failure
\* `catch (e) { showErrorMessage(...); return; }`
ActivateStarted(ok) ==
    /\ apc = "start"
    /\ conns[client].startP = "pending"
    /\ StartSettles(client, ok)
    /\ IF ok
         THEN /\ messages' = messages \cup {"Elm LSP started"}
              /\ apc' = "active"
         ELSE /\ messages' = messages \cup {"Failed to start Elm LSP"}
              /\ apc' = "startfailed"
    /\ UNCHANGED <<inst, wedit, sent, fsExists, client, isRestarting, rpc, rawait,
                   dpc, dawait, log>>

\* ----------------------------------------------------------- restart-server
\* Invocations are numbered in the order the user issues them.
NextInvocation(r) == rpc[r] = "idle" /\ \A q \in 1..(r - 1) : rpc[q] # "idle"

\* The command is invoked while no handler is registered for it: the editor
\* answers "command not found" and no code of the extension runs.
RestartNotRegistered(r) ==
    /\ NextInvocation(r)
    /\ ActivateReturned
    /\ ~Registered
    /\ dpc = "idle"
    /\ rpc' = [rpc EXCEPT ![r] = "notfound"]
    /\ UNCHANGED <<inst, reqVars, fsExists, client, conns, isRestarting, apc, rawait,
                   dpc, dawait, messages, log>>

\* a rejection that leaves through the `finally` of the restart in progress
RestartRejectedClearsFlag(r) ==
    /\ NextInvocation(r)
    /\ Registered
    /\ isRestarting
    /\ messages' = messages \cup {"Elm LSP is already restarting..."}
    /\ rpc' = [rpc EXCEPT ![r] = "rejected"]
    /\ isRestarting' = FALSE
    /\ UNCHANGED <<inst, reqVars, fsExists, client, conns, apc, rawait, dpc, dawait, log>>

\* `if (isRestarting) { showWarningMessage(...); return; }`
RestartRejected(r) ==
    /\ NextInvocation(r)
    /\ Registered
    /\ isRestarting
    /\ messages' = messages \cup {"Elm LSP is already restarting..."}
    /\ rpc' = [rpc EXCEPT ![r] = "rejected"]
    /\ UNCHANGED <<inst, reqVars, fsExists, client, conns, isRestarting, apc, rawait,
                   dpc, dawait, log>>

\* the handler without its reentrancy test
RestartGuardMissing == TRUE
\* the reentrancy test of the handler
RestartGuard == ~isRestarting

\* a restart that does not stop the connection it replaces
RestartBeginNoStop(r) ==
    /\ NextInvocation(r)
    /\ Registered
    /\ RestartGuard
    /\ isRestarting' = TRUE
    /\ rpc' = [rpc EXCEPT ![r] = "find"]
    /\ UNCHANGED <<inst, reqVars, fsExists, client, conns, apc, rawait, dpc, dawait, messages, log>>

\* `isRestarting = true; try { if (client) { await client.stop(); }`
\* client.stop(): a Running client starts its shutdown, a Stopping one hands
\* back the shutdown in progress, a Stopped one resolves at once, and a client
\* in any other state rejects ("Client is not running and can't be stopped").
RestartBegin(r) ==
    /\ NextInvocation(r)
    /\ Registered
    /\ RestartGuard
    /\ IF client = NoClient \/ conns[client].state = "Stopped"
         THEN /\ isRestarting' = TRUE
              /\ rpc' = [rpc EXCEPT ![r] = "find"]
              /\ UNCHANGED <<conns, rawait>>
         ELSE IF conns[client].state = "Running"
         THEN /\ isRestarting' = TRUE
              /\ conns' = [conns EXCEPT ![client] =
                             [@ EXCEPT !.state = "Stopping", !.stopP = "pending"]]
              /\ rpc' = [rpc EXCEPT ![r] = "stop"]
              /\ rawait' = [rawait EXCEPT ![r] = client]
         ELSE IF conns[client].state = "Stopping"
         THEN /\ isRestarting' = TRUE
              /\ rpc' = [rpc EXCEPT ![r] = "stop"]
              /\ rawait' = [rawait EXCEPT ![r] = client]
              /\ UNCHANGED conns
         ELSE \* stop() rejects; `finally { isRestarting = false; }`
              /\ isRestarting' = FALSE
              /\ rpc' = [rpc EXCEPT ![r] = "threw"]
              /\ UNCHANGED <<conns, rawait>>
    /\ UNCHANGED <<inst, reqVars, fsExists, client, apc, dpc, dawait, messages, log>>

\* resumes after `await client.stop()`
RestartStopped(r) ==
    /\ rpc[r] = "stop"
    /\ conns[rawait[r]].stopP \in {"ok", "failed"}
    /\ IF conns[rawait[r]].stopP = "ok"
         THEN /\ rpc' = [rpc EXCEPT ![r] = "find"]
              /\ UNCHANGED isRestarting
         ELSE /\ rpc' = [rpc EXCEPT ![r] = "threw"]
              /\ isRestarting' = FALSE
    /\ rawait' = [rawait EXCEPT ![r] = NoClient]
    /\ UNCHANGED <<inst, reqVars, fsExists, client, conns, apc, dpc, dawait, messages, log>>

\* a restart that starts the server from the path of the previous start
RestartFoundReusesPath(r) ==
    /\ rpc[r] = "find"
    /\ LET newPath == IF client = NoClient THEN "" ELSE conns[client].path IN
         IF newPath = ""
           THEN /\ isRestarting' = FALSE
                /\ rpc' = [rpc EXCEPT ![r] = "nobinary"]
                /\ UNCHANGED <<client, conns, rawait>>
           ELSE /\ conns' = ConnsAfterStart(newPath)
                /\ client' = ClientAfterStart
                /\ rawait' = [rawait EXCEPT ![r] = ClientAfterStart]
                /\ rpc' = [rpc EXCEPT ![r] = "start"]
                /\ UNCHANGED isRestarting
    /\ UNCHANGED <<inst, reqVars, fsExists, apc, dpc, dawait, messages, log>>

\* resumes after `await findServerBinary(context)`:
\* `if (newPath) { await startLanguageClient(context, newPath); ... }`
RestartFound(r) ==
    /\ rpc[r] = "find"
    /\ LET newPath == findServerBinary(fsExists) IN
         IF newPath = ""
           THEN /\ isRestarting' = FALSE
                /\ rpc' = [rpc EXCEPT ![r] = "nobinary"]
                /\ UNCHANGED <<client, conns, rawait>>
           ELSE /\ conns' = ConnsAfterStart(newPath)
                /\ client' = ClientAfterStart
                /\ rawait' = [rawait EXCEPT ![r] = ClientAfterStart]
                /\ rpc' = [rpc EXCEPT ![r] = "start"]
                /\ UNCHANGED isRestarting
    /\ UNCHANGED <<inst, reqVars, fsExists, apc, dpc, dawait, messages, log>>

\* a handler that clears the flag after the start instead of in a `finally`
RestartStartedNoFinally(r, ok) ==
    /\ rpc[r] = "start"
    /\ conns[rawait[r]].startP = "pending"
    /\ StartSettles(rawait[r], ok)
    /\ IF ok
         THEN /\ messages' = messages \cup {"Elm LSP restarted"}
              /\ rpc' = [rpc EXCEPT ![r] = "restarted"]
              /\ isRestarting' = FALSE
         ELSE /\ rpc' = [rpc EXCEPT ![r] = "threw"]
              /\ UNCHANGED <<messages, isRestarting>>
    /\ rawait' = [rawait EXCEPT ![r] = NoClient]
    /\ UNCHANGED <<inst, wedit, sent, fsExists, client, apc, dpc, dawait, log>>

\* resumes after `await client.start()`; `finally { isRestarting = false; }`
RestartStarted(r, ok) ==
    /\ rpc[r] = "start"
    /\ conns[rawait[r]].startP = "pending"
    /\ StartSettles(rawait[r], ok)
    /\ IF ok
         THEN /\ messages' = messages \cup {"Elm LSP restarted"}
              /\ rpc' = [rpc EXCEPT ![r] = "restarted"]
         ELSE /\ rpc' = [rpc EXCEPT ![r] = "threw"]
              /\ UNCHANGED messages
    /\ isRestarting' = FALSE
    /\ rawait' = [rawait EXCEPT ![r] = NoClient]
    /\ UNCHANGED <<inst, wedit, sent, fsExists, client, apc, dpc, dawait, log>>

\* --------------------------------------------------------------- deactivate
\* `if (client) { await client.stop(); }`
DeactivateBegin ==
    /\ dpc = "idle"
    /\ ActivateReturned
    /\ IF client = NoClient \/ conns[client].state = "Stopped"
         THEN /\ dpc' = "returned"
              /\ UNCHANGED <<conns, dawait>>
         ELSE IF conns[client].state = "Running"
         THEN /\ conns' = [conns EXCEPT ![client] =
                             [@ EXCEPT !.state = "Stopping", !.stopP = "pending"]]
              /\ dpc' = "stop"
              /\ dawait' = client
         ELSE IF conns[client].state = "Stopping"
         THEN /\ dpc' = "stop"
              /\ dawait' = client
              /\ UNCHANGED conns
         ELSE /\ dpc' = "threw"
              /\ UNCHANGED <<conns, dawait>>
    /\ UNCHANGED <<inst, reqVars, fsExists, client, isRestarting, apc, rpc, rawait,
                   messages, log>>

\* resumes after `await client.stop()`
DeactivateStopped ==
    /\ dpc = "stop"
    /\ conns[dawait].stopP \in {"ok", "failed"}
    /\ dpc' = IF conns[dawait].stopP = "ok" THEN "returned" ELSE "threw"
    /\ dawait' = NoClient
    /\ UNCHANGED <<inst, reqVars, fsExists, client, conns, isRestarting, apc, rpc, rawait,
                   messages, log>>

\* ------------------------------------------- the language-client library
\* The start the library itself began after a closure completes.
LibStartOk(c) ==
    /\ conns[c].state = "Starting"
    /\ conns[c].startP # "pending"
    /\ conns' = [conns EXCEPT ![c] = [@ EXCEPT !.state = "Running"]]
    /\ UNCHANGED <<inst, reqVars, fsExists, client, isRestarting, apc, rpc, rawait,
                   dpc, dawait, messages, log>>

\* The start the library itself began after a closure fails.
LibStartFail(c) ==
    /\ conns[c].state = "Starting"
    /\ conns[c].startP # "pending"
    /\ conns' = [conns EXCEPT ![c] = [@ EXCEPT !.state = "StartFailed"]]
    /\ LoseRequests(c)
    /\ UNCHANGED <<inst, wedit, sent, fsExists, client, isRestarting, apc, rpc, rawait,
                   dpc, dawait, messages, log>>

\* client.stop() completes (ok) or times out (failed): either way the
\* connection ends Stopped.
LibStopDone(c, res) ==
    /\ conns[c].state = "Stopping"
    /\ conns' = [conns EXCEPT ![c] = [@ EXCEPT !.state = "Stopped", !.stopP = res]]
    /\ LoseRequests(c)
    /\ UNCHANGED <<inst, wedit, sent, fsExists, client, isRestarting, apc, rpc, rawait,
                   dpc, dawait, messages, log>>

\* errorHandler.error: the transport reported an error on a running connection.
\* The callback logs and answers ErrorHandlerAction; on Shutdown the library
\* stops the client, on Continue it does nothing.
TransportError(c) ==
    /\ conns[c].state = "Running"
    /\ log' = log \cup {"LSP Error"}
    /\ IF ErrorCallback = "Shutdown"
         THEN conns' = [conns EXCEPT ![c] =
                          [@ EXCEPT !.state = "Stopping", !.stopP = "pending"]]
         ELSE UNCHANGED conns
    /\ UNCHANGED <<inst, reqVars, fsExists, client, isRestarting, apc, rpc, rawait,
                   dpc, dawait, messages>>

\* errorHandler.closed: the transport of a running connection closed without a
\* stop having been asked for. The callback logs and answers
\* ClosedHandlerAction; on Restart the library starts the same client again,
\* on DoNotRestart the client ends Stopped.
TransportClosed(c) ==
    /\ conns[c].state = "Running"
    /\ log' = log \cup {"LSP connection closed unexpectedly"}
    /\ conns' = [conns EXCEPT ![c] =
                   [@ EXCEPT !.state =
                       IF ClosedCallback = "Restart"
                         THEN "Starting" ELSE "Stopped"]]
    /\ LoseRequests(c)
    /\ UNCHANGED <<inst, wedit, sent, fsExists, client, isRestarting, apc, rpc, rawait,
                   dpc, dawait, messages>>

\* ------------------------------------------------------------- environment
\* a candidate binary appears on disk or disappears from it
FsChange(b) ==
    /\ fsExists' = IF b \in fsExists THEN fsExists \ {b} ELSE fsExists \cup {b}
    /\ UNCHANGED <<inst, reqVars, client, conns, isRestarting, apc, rpc, rawait,
                   dpc, dawait, messages, log>>

\* ------------------------------------------------- downloadBinary, downloadFile
\* downloadBinary up to `await fetchLatestRelease()`: the storage directory is
\* made and the platform target resolved.
InstallBegin ==
    /\ inst.pc = "idle"
    /\ apc = "download"
    /\ LET target == getPlatformTarget(inst.platform, inst.arch) IN
         inst' = IF target = "throw"
                   THEN [inst EXCEPT !.pc = "failed", !.err = "Unsupported platform"]
                   ELSE [inst EXCEPT !.pc = "fetch", !.target = target]
    /\ UNCHANGED <<fsExists, client, conns, isRestarting, apc, rpc, rawait, dpc, dawait,
                   messages, log, reqVars>>

\* resumes after `await fetchLatestRelease()`:
\*   "release":    the release document, with inst.assets
\*   "noassets":   a JSON document without `assets` (releaseInfo.assets.find throws)
\*   "unparsable": 'Failed to parse release info'
\*   "error":      the request failed
\* With the asset found, downloadFile is called: fs.createWriteStream(dest)
\* creates the destination and the first https.get is made.
FetchReturns(res) ==
    /\ inst.pc = "fetch"
    /\ IF res = "release"
         THEN IF assetName(inst.target, inst.platform) \in inst.assets
                THEN /\ inst' = [inst EXCEPT !.pc = "request", !.requests = 1, !.data = <<>>]
                     /\ fsExists' = fsExists \cup {"installed"}
                ELSE /\ inst' = [inst EXCEPT !.pc = "failed", !.err = "No binary found",
                                             !.available = inst.assets]
                     /\ UNCHANGED fsExists
         ELSE /\ inst' = [inst EXCEPT !.pc = "failed",
                              !.err = IF res = "noassets" THEN "TypeError"
                                      ELSE IF res = "unparsable"
                                        THEN "Failed to parse release info"
                                      ELSE "request error"]
              /\ UNCHANGED fsExists
    /\ UNCHANGED <<client, conns, isRestarting, apc, rpc, rawait, dpc, dawait,
                   messages, log, reqVars>>

\* `res.statusCode === 302 || res.statusCode === 301`
IsRedirect(status) == status \in {301, 302}
\* the status codes the download is answered with
Statuses == {200, 301, 302, 307, 404}

\* the response callback of https.get in downloadFile
Response(status) ==
    /\ inst.pc = "request"
    /\ IF IsRedirect(status)
         THEN /\ inst.redirects < MaxRedirects
              /\ inst' = [inst EXCEPT !.redirects = @ + 1, !.requests = @ + 1]
         ELSE IF status # 200
         THEN inst' = [inst EXCEPT !.pc = "failed", !.err = "Download failed"]
         ELSE inst' = [inst EXCEPT !.pc = "piping"]
    /\ UNCHANGED <<fsExists, client, conns, isRestarting, apc, rpc, rawait, dpc, dawait,
                   messages, log, reqVars>>

\* `res.pipe(file)`: the next chunk of the body is written
WriteChunk ==
    /\ inst.pc = "piping"
    /\ Len(inst.data) < Len(inst.body)
    /\ inst' = [inst EXCEPT !.data = Append(@, inst.body[Len(inst.data) + 1])]
    /\ UNCHANGED <<fsExists, client, conns, isRestarting, apc, rpc, rawait, dpc, dawait,
                   messages, log, reqVars>>

\* a 'finish' that fires once anything has been written
FinishedWritingEarly(i) == Len(i.data) >= 1 \/ i.data = i.body
\* the write stream emits 'finish': the response ended and all of it is written
FinishedWriting(i) == i.data = i.body

\* `file.on('finish', () => { file.close(); resolve(); })`, then downloadBinary
\* resumes: `if (process.platform !== 'win32') fs.chmodSync(binaryPath, 0o755)`
WriteFinished ==
    /\ inst.pc = "piping"
    /\ FinishedWriting(inst)
    /\ inst' = [inst EXCEPT !.pc = "done", !.exec = (inst.platform # "win32")]
    /\ UNCHANGED <<fsExists, client, conns, isRestarting, apc, rpc, rawait, dpc, dawait,
                   messages, log, reqVars>>

\* The transfer fails. `where` is the object the error is emitted on:
\*   "request":  the ClientRequest: `.on('error', ...)` calls fs.unlink(dest)
\*               and rejects
\*   "response": the response stream, once the body is being read: nothing
\*               listens, the promise is never settled
TransferError(where) ==
    /\ \/ inst.pc \in {"request", "piping"} /\ where = "request"
       \/ inst.pc = "piping" /\ where = "response"
    /\ inst' = IF where = "request"
                 THEN [inst EXCEPT !.pc = "failed", !.err = "request error",
                                   !.unlinking = TRUE]
                 ELSE [inst EXCEPT !.pc = "hung"]
    /\ UNCHANGED <<fsExists, client, conns, isRestarting, apc, rpc, rawait, dpc, dawait,
                   messages, log, reqVars>>

\* the fs.unlink(dest, () => { }) of the error callback completes
UnlinkDone ==
    /\ inst.unlinking
    /\ inst' = [inst EXCEPT !.unlinking = FALSE, !.data = <<>>]
    /\ fsExists' = fsExists \ {"installed"}
    /\ UNCHANGED <<client, conns, isRestarting, apc, rpc, rawait, dpc, dawait,
                   messages, log, reqVars>>

\* `serverPath = await downloadBinary(context)` settles in activate(): with
\* the path of the installed binary, or into the catch of lines 314-317
InstallReturns ==
    /\ inst.pc \in {"done", "failed"}
    /\ ActivateDownloaded(inst.pc = "done")

\* The editor is started again after an activation that ended in the failed
\* download: a new extension host runs activate() with the module variables
\* at their initial values, on the file system the last session left (any
\* deletion it had asked for has completed).
Reactivate ==
    /\ apc = "dlfailed"
    /\ ~inst.unlinking
    /\ apc' = "find"
    /\ messages' = {}
    /\ UNCHANGED <<inst, fsExists, client, conns, isRestarting, rpc, rawait, dpc, dawait,
                   log, reqVars>>

\* ------------------------------------------------- operations with a request
\* moveFunction and generateErd are commands; documentSymbol is
\* provideCodeLenses and references is resolveCodeLens.
CmdKinds == {"moveFunction", "generateErd", "documentSymbol", "references"}
Prompting(kind) == kind \in {"moveFunction", "generateErd"}

\* `client.sendRequest(...)` of the operation: the request goes to IssueTarget
CmdSend(c) ==
    LET t == IssueTarget(c.entry) IN
    [c EXCEPT !.pc = "await", !.target = t, !.reply = SendReply(t)]

\* The operation is invoked. `ok`: an Elm editor is active (the commands and
\* resolveCodeLens), the document is Elm and the annotation setting is on
\* (provideCodeLenses).
CmdInvoke(kind, ok) ==
    /\ cmd.pc = "idle"
    /\ Registered
    /\ IF Prompting(kind)
         THEN IF ok
                THEN \* `await vscode.window.showInputBox(...)`
                     /\ cmd' = [IdleCmd EXCEPT !.kind = kind, !.pc = "input", !.entry = client]
                     /\ UNCHANGED messages
                ELSE /\ cmd' = [IdleCmd EXCEPT !.kind = kind, !.pc = "done", !.result = "noeditor"]
                     /\ messages' = messages \cup {"Open an Elm file first"}
         ELSE /\ cmd' = IF client = NoClient \/ ~ok
                          THEN [IdleCmd EXCEPT !.kind = kind, !.pc = "done", !.result = "empty"]
                          ELSE CmdSend([IdleCmd EXCEPT !.kind = kind, !.entry = client])
              /\ UNCHANGED messages
    /\ UNCHANGED <<inst, fsExists, client, conns, isRestarting, apc, rpc, rawait, dpc, dawait,
                   log, ren, wedit, sent>>

\* resumes after the input box: `if (!targetModule || !client) return;`
CmdInput(given) ==
    /\ cmd.pc = "input"
    /\ cmd' = IF ~given \/ client = NoClient
                THEN [cmd EXCEPT !.pc = "done", !.result = "cancelled"]
                ELSE CmdSend(cmd)
    /\ UNCHANGED <<inst, fsExists, client, conns, isRestarting, apc, rpc, rawait, dpc, dawait,
                   messages, log, ren, wedit, sent>>

\* the request succeeded: the operation finishes with the server's answer
CmdSucceeded ==
    /\ cmd' = [cmd EXCEPT !.pc = "done", !.reply = "none", !.result = "ok"]
    /\ UNCHANGED <<messages, log>>

\* a `catch` that throws the error on to the caller
CmdFailedRethrows ==
    /\ cmd' = [cmd EXCEPT !.pc = "done", !.reply = "none", !.result = "rejected"]
    /\ UNCHANGED <<messages, log>>

\* the `catch` of the operation: a notification (the commands), a log line
\* and `return []` (provideCodeLenses), or `codeLens.command = { title: '',
\* command: '' }` (resolveCodeLens)
CmdFailed ==
    /\ cmd' = [cmd EXCEPT !.pc = "done", !.reply = "none", !.result = "failed",
                          !.lenses = IF cmd.kind = "documentSymbol" THEN <<>> ELSE @,
                          !.lens = IF cmd.kind = "references"
                                     THEN [@ EXCEPT !.title = "", !.command = "",
                                                    !.arguments = <<>>]
                                     ELSE @]
    /\ messages' = IF cmd.kind = "moveFunction" THEN messages \cup {"Move failed"}
                   ELSE IF cmd.kind = "generateErd" THEN messages \cup {"ERD generation failed"}
                   ELSE messages
    /\ log' = IF cmd.kind = "documentSymbol" THEN log \cup {"CodeLens error"} ELSE log

\* a `catch` that treats a failed request as fatal and stops the client
CmdReplyStops(outcome) ==
    /\ cmd.pc = "await"
    /\ cmd.reply = "pending"
    /\ conns[cmd.target].state = "Running"
    /\ IF outcome = "ok"
         THEN CmdSucceeded /\ UNCHANGED conns
         ELSE /\ CmdFailed
              /\ conns' = [conns EXCEPT ![cmd.target] =
                             [@ EXCEPT !.state = "Stopping", !.stopP = "pending"]]
    /\ UNCHANGED <<inst, fsExists, client, isRestarting, apc, rpc, rawait, dpc, dawait,
                   ren, wedit, sent>>

\* the server answers the request: a result, or a per-request protocol error
CmdReply(outcome) ==
    /\ cmd.pc = "await"
    /\ cmd.reply = "pending"
    /\ conns[cmd.target].state = "Running"
    /\ IF outcome = "ok" THEN CmdSucceeded ELSE CmdFailed
    /\ UNCHANGED <<inst, fsExists, client, conns, isRestarting, apc, rpc, rawait, dpc, dawait,
                   ren, wedit, sent>>

\* the request was rejected by the library (its connection is gone)
CmdLost ==
    /\ cmd.pc = "await"
    /\ cmd.reply = "lost"
    /\ CmdFailed
    /\ UNCHANGED <<inst, fsExists, client, conns, isRestarting, apc, rpc, rawait, dpc, dawait,
                   ren, wedit, sent>>

\* ------------------------------------------------ ElmReferencesCodeLensProvider
\* the values of vscode.SymbolKind the provider annotates: Function, Class,
\* Struct, Enum, Interface
AnnotatedKinds == {11, 4, 22, 9, 10}

\* The answers to textDocument/documentSymbol. form: "null" (no response),
\* "flat" (SymbolInformation[]: every entry has a `location`) or "nested"
\* (DocumentSymbol[]: no `location`); each symbol is its kind and the range of
\* its location.
SymbolResponses ==
    { [form |-> "null", symbols |-> <<>>],
      [form |-> "flat", symbols |-> <<>>],
      [form |-> "flat", symbols |-> <<[kind |-> 11, range |-> <<1, 0, 3, 5>>]>>],
      [form |-> "flat", symbols |-> <<[kind |-> 12, range |-> <<0, 0, 0, 9>>],
                                      [kind |-> 11, range |-> <<1, 0, 3, 5>>],
                                      [kind |-> 9, range |-> <<6, 2, 8, 0>>]>>],
      [form |-> "nested", symbols |-> <<[kind |-> 11, range |-> <<1, 0, 3, 5>>]>>] }

\* the CodeLens list of a response: one range per annotated symbol of a
\* non-empty flat list, in the order of the response
LensesOf(response) ==
    IF response.form = "flat" /\ Len(response.symbols) > 0
      THEN LET sel == SelectSeq(response.symbols, LAMBDA y : y.kind \in AnnotatedKinds)
           IN [j \in 1..Len(sel) |-> sel[j].range]
      ELSE <<>>

\* provideCodeLenses resumes with the answer to its request
LensProvided(response) ==
    /\ cmd.kind = "documentSymbol"
    /\ cmd.pc = "await"
    /\ cmd.reply = "pending"
    /\ conns[cmd.target].state = "Running"
    /\ cmd' = [cmd EXCEPT !.pc = "done", !.reply = "none", !.result = "ok",
                          !.lenses = LensesOf(response)]
    /\ UNCHANGED <<inst, fsExists, client, conns, isRestarting, apc, rpc, rawait, dpc,
                   dawait, messages, log, ren, wedit, sent>>

\* The editor asks for lens j of the list provideCodeLenses returned:
\* resolveCodeLens up to its request. hasDocument: there is an active editor.
ResolveCodeLens(j, hasDocument) ==
    /\ cmd.kind = "documentSymbol"
    /\ cmd.pc = "done"
    /\ Registered
    /\ j \in 1..Len(cmd.lenses)
    /\ LET c == [IdleCmd EXCEPT !.kind = "references", !.entry = client,
                                !.lenses = cmd.lenses,
                                !.lens = [NoLens EXCEPT !.range = cmd.lenses[j]]]
       IN cmd' = IF client = NoClient \/ ~hasDocument
                   THEN [c EXCEPT !.pc = "done", !.result = "empty"]
                   ELSE CmdSend(c)
    /\ UNCHANGED <<inst, fsExists, client, conns, isRestarting, apc, rpc, rawait, dpc,
                   dawait, messages, log, ren, wedit, sent>>

\* `references?.length ?? 0`: r is the length of the response, negative for null
countOf(r) == IF r < 0 THEN 0 ELSE r

\* a title that is not special for one reference
referencesTitlePlural(count) == ToString(count) \o " references"
\* `count === 1 ? '1 reference' : `${count} references``
referencesTitle(count) ==
    IF count = 1 THEN "1 reference" ELSE ToString(count) \o " references"

\* resolveCodeLens resumes with the answer to its request
LensResolved(r) ==
    /\ cmd.kind = "references"
    /\ cmd.pc = "await"
    /\ cmd.reply = "pending"
    /\ conns[cmd.target].state = "Running"
    /\ LET count == countOf(r) IN
         cmd' = [cmd EXCEPT
                   !.pc = "done", !.reply = "none", !.result = "ok", !.response = r,
                   !.lens = [@ EXCEPT
                       !.title = referencesTitle(count),
                       !.command = IF count > 0 THEN "editor.action.findReferences" ELSE "",
                       !.arguments = IF count > 0
                                       THEN <<"document.uri", <<cmd.lens.range[1], cmd.lens.range[2]>> >>
                                       ELSE <<>>]]
    /\ UNCHANGED <<inst, fsExists, client, conns, isRestarting, apc, rpc, rawait, dpc,
                   dawait, messages, log, ren, wedit, sent>>

\* onDidChangeTextDocument: codeLensProviderInstance.refresh() makes the
\* editor drop the annotations and ask for them again
LensRefresh ==
    /\ cmd.kind \in {"documentSymbol", "references"}
    /\ cmd.pc = "done"
    /\ Registered
    /\ cmd' = IdleCmd
    /\ UNCHANGED <<inst, fsExists, client, conns, isRestarting, apc, rpc, rawait, dpc,
                   dawait, messages, log, ren, wedit, sent>>

\* -------------------------------------------------------- onWillRenameFiles
\* a filter that tests the new path only
IsElmPairNewOnly(i) == EndsWith(PairTable[i].new, Ext)
IsElmPair(i) == EndsWith(PairTable[i].old, Ext) /\ EndsWith(PairTable[i].new, Ext)
\* `event.files.filter(f => ...endsWith('.elm') && ...endsWith('.elm'))`
elmFiles(files) == SelectSeq(files, IsElmPair)

\* vscode.Uri.toString of a file URI
uriToString(fsPath) == <<"file://">> \o fsPath

\* a move whose new path is made relative to the root that owns the new path
RenameCommandRootOfNew(i) ==
    LET old == PairTable[i].old
        new == PairTable[i].new
        workspaceFolder == getWorkspaceFolder(new)
        relativePath == IF workspaceFolder # <<>>
                          THEN relative(workspaceFolder, new) ELSE new
    IN IF dirname(old) = dirname(new)
         THEN [command |-> "elm.renameFile", arguments |-> <<uriToString(old), basename(new)>>]
         ELSE [command |-> "elm.moveFile", arguments |-> <<uriToString(old), relativePath>>]

\* the command of one pair: rename in the same directory, move otherwise
RenameCommand(i) ==
    LET old == PairTable[i].old
        new == PairTable[i].new
        oldDir == dirname(old)
        newDir == dirname(new)
        newName == basename(new)
        workspaceFolder == getWorkspaceFolder(old)
        relativePath == IF workspaceFolder # <<>>
                          THEN relative(workspaceFolder, new) ELSE new
    IN IF oldDir = newDir
         THEN [command |-> "elm.renameFile", arguments |-> <<uriToString(old), newName>>]
         ELSE [command |-> "elm.moveFile", arguments |-> <<uriToString(old), relativePath>>]

\* the command of every pair of PairTable
RenameCommands == [i \in PairIds |-> RenameCommand(i)]

\* `await client!.sendRequest('workspace/executeCommand', ...)` for pair k of
\* the filtered list
RenameSend(rn, k) ==
    LET t == IssueTarget(rn.entry) IN
    /\ ren' = [rn EXCEPT !.pc = "await", !.idx = k, !.target = t, !.reply = SendReply(t)]
    /\ sent' = Append(sent, [pair |-> rn.files[k],
                             command |-> RenameCommands[rn.files[k]].command,
                             arguments |-> RenameCommands[rn.files[k]].arguments])

\* the editor fires onWillRenameFiles with event.files = files
RenameFire(files) ==
    /\ ren.pc = "idle"
    /\ Registered
    /\ LET ef == elmFiles(files) IN
         IF Len(ef) = 0 \/ client = NoClient
           THEN \* `return` before event.waitUntil: the rename is not delayed
                /\ ren' = [IdleRen EXCEPT !.pc = "skipped", !.event = files]
                /\ UNCHANGED sent
           ELSE RenameSend([IdleRen EXCEPT !.event = files, !.files = ef, !.entry = client], 1)
    /\ UNCHANGED <<inst, fsExists, client, conns, isRestarting, apc, rpc, rawait, dpc, dawait,
                   messages, log, cmd, wedit>>

\* the edits of a `result.changes`, in the order the server returned them
EditsOf(k) == <<[pair |-> k, edit |-> 1], [pair |-> k, edit |-> 2]>>

\* The outcomes of one pair's request:
\*   "changes":   { success: true, changes }
\*   "error":     { success: false, error }
\*   "null":      no result
\*   "throw":     the request failed
\*   "malformed": { success: true, changes } whose second edit has no range:
\*                the first edit is added, then the loop body throws
RenameOutcomes == {"changes", "error", "null", "throw", "malformed"}
Throws(outcome) == outcome \in {"throw", "malformed"}

\* a `new vscode.WorkspaceEdit()` made inside the loop, once per pair
AccumulateFresh(w, outcome, k) ==
    IF outcome = "changes" THEN EditsOf(k) ELSE <<>>
\* `workspaceEdit.replace(uri, range, edit.newText)` for every edit of the
\* result, on the one `workspaceEdit` made before the loop
Accumulate(w, outcome, k) ==
    IF outcome = "changes" THEN w \o EditsOf(k)
    ELSE IF outcome = "malformed" THEN Append(w, EditsOf(k)[1])
    ELSE w

\* the log, notification and bookkeeping of one pair's outcome
RenameNote(outcome) ==
    /\ log' = IF outcome = "changes" THEN log \cup {"Elm: module moved"}
              ELSE IF Throws(outcome) THEN log \cup {"Elm file rename error"}
              ELSE log
    /\ messages' = IF outcome = "error" THEN messages \cup {"Elm move/rename: error"}
                   ELSE messages

\* a `try` around the whole loop: a pair that throws ends the batch
RenameHandleAborts(outcome) ==
    /\ wedit' = Accumulate(wedit, outcome, ren.idx)
    /\ RenameNote(outcome)
    /\ LET rn == [ren EXCEPT !.outcomes = Append(@, outcome)] IN
       IF ren.idx < Len(ren.files) /\ ~Throws(outcome)
         THEN RenameSend(rn, ren.idx + 1)
         ELSE /\ ren' = [rn EXCEPT !.pc = "done", !.reply = "none", !.target = NoClient,
                                   !.returned = Append(@, wedit')]
              /\ UNCHANGED sent

\* The body of the loop after the await, for one outcome of the request, and
\* then the next pair's request or `return workspaceEdit`, which hands the
\* edit to the editor through event.waitUntil.
RenameHandle(outcome) ==
    /\ wedit' = Accumulate(wedit, outcome, ren.idx)
    /\ RenameNote(outcome)
    /\ LET rn == [ren EXCEPT !.outcomes = Append(@, outcome)] IN
       IF ren.idx < Len(ren.files)
         THEN RenameSend(rn, ren.idx + 1)
         ELSE /\ ren' = [rn EXCEPT !.pc = "done", !.reply = "none", !.target = NoClient,
                                   !.returned = Append(@, wedit')]
              /\ UNCHANGED sent

RenameReply(outcome) ==
    /\ ren.pc = "await"
    /\ ren.reply = "pending"
    /\ conns[ren.target].state = "Running"
    /\ RenameHandle(outcome)
    /\ UNCHANGED <<inst, fsExists, client, conns, isRestarting, apc, rpc, rawait, dpc, dawait, cmd>>

\* a loop without its `catch`: the failed request rejects the promise given
\* to event.waitUntil
RenameLostRejects ==
    /\ ren.pc = "await"
    /\ ren.reply = "lost"
    /\ ren' = [ren EXCEPT !.pc = "rejected", !.reply = "none", !.target = NoClient]
    /\ UNCHANGED <<inst, fsExists, client, conns, isRestarting, apc, rpc, rawait, dpc,
                   dawait, cmd, wedit, sent, messages, log>>

\* the request was rejected by the library (its connection is gone): the
\* `catch` of the loop body
RenameLost ==
    /\ ren.pc = "await"
    /\ ren.reply = "lost"
    /\ RenameHandle("throw")
    /\ UNCHANGED <<inst, fsExists, client, conns, isRestarting, apc, rpc, rawait, dpc, dawait, cmd>>

\* --------------------------------------------------------------------- Next
Next ==
    \/ ActivateBegin
    \/ ActivateFound
    \/ \E choice \in {"Download", "Configure Path", "dismissed"} : ActivateChoice(choice)
    \/ \E ok \in BOOLEAN : ActivateDownloaded(ok)
    \/ \E ok \in BOOLEAN : ActivateStarted(ok)
    \/ \E r \in RestartIds : RestartNotRegistered(r)
    \/ \E r \in RestartIds : RestartRejected(r)
    \/ \E r \in RestartIds : RestartBegin(r)
    \/ \E r \in RestartIds : RestartStopped(r)
    \/ \E r \in RestartIds : RestartFound(r)
    \/ \E r \in RestartIds, ok \in BOOLEAN : RestartStarted(r, ok)
    \/ DeactivateBegin
    \/ DeactivateStopped
    \/ \E c \in ConnIds : LibStartOk(c)
    \/ \E c \in ConnIds : LibStartFail(c)
    \/ \E c \in ConnIds, res \in {"ok", "failed"} : LibStopDone(c, res)
    \/ \E c \in ConnIds : TransportError(c)
    \/ \E c \in ConnIds : TransportClosed(c)
    \/ \E b \in Volatile : FsChange(b)

Spec == Init /\ [][Next]_vars

\* ------------------------------------------- requests against the supervisor
\* The extension is active with its first connection Running; the operations
\* that send requests run while the connection is restarted, closes or fails.
InitReq ==
    /\ fsExists \in {{}, {"installed"}}
    /\ client = 1
    /\ conns = <<[state |-> "Running", startP |-> "ok", stopP |-> "none",
                  path |-> "installed"]>>
    /\ isRestarting = FALSE
    /\ apc = "active"
    /\ rpc = [r \in RestartIds |-> "idle"]
    /\ rawait = [r \in RestartIds |-> NoClient]
    /\ dpc = "idle"
    /\ dawait = NoClient
    /\ messages = {"Elm LSP started"}
    /\ log = {}
    /\ cmd = IdleCmd
    /\ ren = IdleRen
    /\ wedit = <<>>
    /\ sent = <<>>
    /\ inst = IdleInst

\* the rename events of this specification: two source pairs, one source
\* pair, and a pair that is not a source file
ReqBatches == {<<1, 2>>, <<2>>, <<4>>}

NextReq ==
    \/ \E kind \in CmdKinds, ok \in BOOLEAN : CmdInvoke(kind, ok)
    \/ \E given \in BOOLEAN : CmdInput(given)
    \/ \E outcome \in {"ok", "error"} : CmdReply(outcome)
    \/ CmdLost
    \/ \E files \in ReqBatches : RenameFire(files)
    \/ \E outcome \in RenameOutcomes : RenameReply(outcome)
    \/ RenameLost
    \/ RestartBegin(1)
    \/ RestartStopped(1)
    \/ RestartFound(1)
    \/ \E ok \in BOOLEAN : RestartStarted(1, ok)
    \/ \E c \in ConnIds : LibStartOk(c)
    \/ \E c \in ConnIds : LibStartFail(c)
    \/ \E c \in ConnIds, res \in {"ok", "failed"} : LibStopDone(c, res)
    \/ \E c \in ConnIds : TransportError(c)
    \/ \E c \in ConnIds : TransportClosed(c)

SpecReq == InitReq /\ [][NextReq]_vars

\* -------------------------------------------------- the rename interception
\* Every rename event of up to MaxBatch pairs, against a connection that may
\* close (and be started again by the library) while the batch is processed.
NextRename ==
    \/ \E files \in Batches : RenameFire(files)
    \/ \E outcome \in RenameOutcomes : RenameReply(outcome)
    \/ RenameLost
    \/ \E c \in ConnIds : LibStartOk(c)
    \/ \E c \in ConnIds : LibStartFail(c)
    \/ \E c \in ConnIds : TransportClosed(c)

SpecRename == InitReq /\ [][NextRename]_vars

\* Every request that was issued is eventually answered or fails: the server
\* answers a request pending on a running connection, the library rejects the
\* requests of a connection that is gone and settles every start it began,
\* and the handler resumes when its await settles.
RenameFairness ==
    /\ WF_vars(\E outcome \in RenameOutcomes : RenameReply(outcome))
    /\ WF_vars(RenameLost)
    /\ WF_vars(\E c \in ConnIds : LibStartOk(c) \/ LibStartFail(c))

SpecRenameLive == SpecRename /\ RenameFairness

\* ------------------------------------------------------- the Binary Locator
\* Activation against every combination of existing candidate binaries, which
\* appear and disappear while activate() runs.
InitLocate ==
    /\ fsExists \in SUBSET CandidateSet
    /\ client = NoClient
    /\ conns = <<>>
    /\ isRestarting = FALSE
    /\ apc = "idle"
    /\ rpc = [r \in RestartIds |-> "idle"]
    /\ rawait = [r \in RestartIds |-> NoClient]
    /\ dpc = "idle"
    /\ dawait = NoClient
    /\ messages = {}
    /\ log = {}
    /\ cmd = IdleCmd
    /\ ren = IdleRen
    /\ wedit = <<>>
    /\ sent = <<>>
    /\ inst = IdleInst

NextLocate ==
    \/ ActivateBegin
    \/ ActivateFound
    \/ \E choice \in {"Download", "Configure Path", "dismissed"} : ActivateChoice(choice)
    \/ \E ok \in BOOLEAN : ActivateDownloaded(ok)
    \/ \E ok \in BOOLEAN : ActivateStarted(ok)
    \/ \E b \in CandidateSet : FsChange(b)

SpecLocate == InitLocate /\ [][NextLocate]_vars

\* ----------------------------------------------------- the Reference Annotator
\* The annotations of a document are provided and resolved, again after every
\* change, while the connection closes, is started again or fails.
NextLens ==
    \/ \E ok \in BOOLEAN : CmdInvoke("documentSymbol", ok)
    \/ \E response \in SymbolResponses : LensProvided(response)
    \/ \E j \in 1..3, hasDocument \in BOOLEAN : ResolveCodeLens(j, hasDocument)
    \/ \E r \in (-1)..MaxRefs : LensResolved(r)
    \/ CmdReply("error")
    \/ CmdLost
    \/ LensRefresh
    \/ \E c \in ConnIds : LibStartOk(c)
    \/ \E c \in ConnIds : LibStartFail(c)
    \/ \E c \in ConnIds : TransportClosed(c)

SpecLens == InitReq /\ [][NextLens]_vars

\* ------------------------------------------------------------ the Installer
\* activate() awaits downloadBinary: no candidate binary exists, on every
\* platform and architecture, for every release and body.
InitInstall ==
    /\ fsExists = {}
    /\ client = NoClient
    /\ conns = <<>>
    /\ isRestarting = FALSE
    /\ apc = "download"
    /\ rpc = [r \in RestartIds |-> "idle"]
    /\ rawait = [r \in RestartIds |-> NoClient]
    /\ dpc = "idle"
    /\ dawait = NoClient
    /\ messages = {"Elm LSP binary not found. Download from GitHub?"}
    /\ log = {}
    /\ cmd = IdleCmd
    /\ ren = IdleRen
    /\ wedit = <<>>
    /\ sent = <<>>
    /\ \E platform \in Platforms, arch \in Archs, assets \in Releases, body \in Bodies :
          inst = [IdleInst EXCEPT !.platform = platform, !.arch = arch,
                                  !.assets = assets, !.body = body]

NextInstall ==
    \/ InstallBegin
    \/ \E res \in {"release", "noassets", "unparsable", "error"} : FetchReturns(res)
    \/ \E status \in Statuses : Response(status)
    \/ WriteChunk
    \/ WriteFinished
    \/ \E where \in {"request", "response"} : TransferError(where)
    \/ UnlinkDone
    \/ InstallReturns
    \/ Reactivate
    \/ ActivateFound

SpecInstall == InitInstall /\ [][NextInstall]_vars

\* ================================================================== claims
InFlight(r) == rpc[r] \in {"stop", "find", "start"}
Finished(r) == rpc[r] \in {"restarted", "nobinary", "threw", "rejected"}

\* C1 (as stated): once every restart-server invocation has finished, exactly
\* one connection is live. Stated for the runs in which no invocation threw,
\* no transport closed and no deactivation was asked for.
C1_ExactlyOneAfterRestarts ==
    (/\ \E r \in RestartIds : Finished(r)
     /\ \A r \in RestartIds : ~InFlight(r) /\ rpc[r] # "threw"
     /\ "LSP connection closed unexpectedly" \notin log
     /\ dpc = "idle")
    => Cardinality(LiveConns) = 1

\* C1 (amended): in every interleaving of restart-server invocations no two
\* connections are ever live and a live connection is the one `client` holds;
\* an invocation issued while another is in progress ends rejected without
\* constructing a connection; and when an admitted restart completes with its
\* start succeeded (no deactivation asked for), exactly one connection is
\* live. A restart that finds no binary, or whose stop or start fails, starts
\* none.
C1_RestartReentrancy ==
    /\ [](Cardinality(LiveConns) <= 1 /\ LiveConns \subseteq {client})
    /\ [][\A r \in RestartIds :
            /\ (rpc[r] = "idle" /\ isRestarting /\ rpc'[r] # "idle")
                 => (rpc'[r] = "rejected" /\ conns' = conns)
            /\ (rpc[r] = "start" /\ rpc'[r] = "restarted" /\ dpc' = "idle")
                 => LiveConns' = {client'}
            /\ (rpc'[r] \in {"nobinary", "threw"} /\ rpc[r] # rpc'[r])
                 => Len(conns') = Len(conns)]_vars

\* C1 witness: a second invocation was rejected while the first was in
\* progress, the first has completed, and one connection is live.
C1_Witness ==
    /\ rpc[1] = "restarted"
    /\ rpc[2] = "rejected"
    /\ LiveConns = {client}
    /\ Len(conns) = 2

\* C2: at most one connection is Starting or Running in every reachable
\* state, and a connection object is only ever constructed by the start step
\* of activate or of a restart, which makes it the current `client`.
C2_AtMostOneLive ==
    /\ [](Cardinality(LiveConns) <= 1)
    /\ [][Len(conns') # Len(conns) =>
            /\ Len(conns') = Len(conns) + 1
            /\ client' = Len(conns')
            /\ \/ apc \in {"find", "download"} /\ apc' = "start"
               \/ \E r \in RestartIds : rpc[r] = "find" /\ rpc'[r] = "start"]_vars

\* C2 witness: a restart replaced a connection: the old one is stopped, the
\* new one is live, after an unexpected closure was seen.
C2_Witness ==
    /\ Len(conns) >= 2
    /\ Cardinality(LiveConns) = 1
    /\ "LSP connection closed unexpectedly" \in log
    /\ dpc # "idle"

\* C3: an invocation that arrives while isRestarting is set shows the warning
\* and does nothing else: no stop, no resolution, no start, the flag and every
\* other invocation unchanged; and a rejected invocation never runs later.
C3_RejectedRestartDoesNothing ==
    [][\A r \in RestartIds :
         /\ (rpc[r] = "idle" /\ isRestarting /\ rpc'[r] # "idle") =>
              /\ rpc'[r] = "rejected"
              /\ "Elm LSP is already restarting..." \in messages'
              /\ UNCHANGED <<client, conns, isRestarting, rawait, fsExists>>
              /\ \A q \in RestartIds \ {r} : rpc'[q] = rpc[q]
         /\ (rpc[r] = "rejected" => rpc'[r] = "rejected")]_vars

\* C3 witness: an invocation was rejected and the restart that caused the
\* rejection is still in progress with the flag set.
C3_Witness ==
    \E r, q \in RestartIds : rpc[r] = "rejected" /\ InFlight(q) /\ isRestarting

\* C4: once deactivate() has returned, no connection is Starting or Running.
C4_NoLiveAfterDeactivate == dpc = "returned" => LiveConns = {}

\* C5: after an unexpected transport closure, and as long as restart-server
\* has not been invoked, no connection is Starting or Running, and the
\* closure was reported.
C5_NoAutoRestart ==
    ("LSP connection closed unexpectedly" \in log /\ \A r \in RestartIds : rpc[r] = "idle")
    => LiveConns = {}

\* C6: after a start failure during activation the error notification was
\* shown and a restart-server invocation is served by the restart handler (it
\* is never answered "command not found"), so that a succeeding start can
\* bring the supervisor to Running.
C6_ManualRestartAfterStartFailure ==
    apc = "startfailed" =>
        /\ "Failed to start Elm LSP" \in messages
        /\ \A r \in RestartIds : rpc[r] # "notfound"

\* C7 (as stated): when the transport error callback fires, the connection it
\* fired for leaves Running.
C7_ErrorIsTerminal ==
    [][("LSP Error" \notin log /\ "LSP Error" \in log') =>
         \A c \in ConnIds : conns[c].state = "Running" => conns'[c].state # "Running"]_vars

\* C7 (amended): the transport error callback logs the error and answers
\* Continue: the step in which it fires changes no connection's state and not
\* `client`; the connection stays Running until it closes or is stopped.
C7_ErrorContinues ==
    [][("LSP Error" \notin log /\ "LSP Error" \in log') =>
         /\ UNCHANGED <<client, conns, isRestarting>>
         /\ \E c \in ConnIds : conns'[c].state = "Running"]_vars

\* C7 witness: the error callback has fired and the connection is Running.
C7_Witness ==
    /\ "LSP Error" \in log
    /\ client # NoClient
    /\ conns[client].state = "Running"
    /\ Len(conns) = 1
    /\ "LSP connection closed unexpectedly" \notin log

\* C8: a request that fails (a per-request protocol error, or a request
\* rejected by the library) leaves the supervisor as it was: `client`, every
\* connection's state, isRestarting and every restart, activation and
\* deactivation in progress are unchanged, and so is the other operation in
\* flight. For the rename interception the steps covered are those that add
\* no edit (a thrown request, an error result, an empty result).
C8_RequestErrorIsLocal ==
    [][/\ (cmd.pc = "await" /\ cmd'.pc = "done" /\ cmd'.result = "failed") =>
            /\ UNCHANGED <<client, conns, isRestarting, apc, rpc, rawait, dpc, dawait>>
            /\ UNCHANGED <<ren, wedit, sent>>
       /\ (ren.pc = "await" /\ (ren'.idx # ren.idx \/ ren'.pc = "done") /\ wedit' = wedit) =>
            /\ UNCHANGED <<client, conns, isRestarting, apc, rpc, rawait, dpc, dawait>>
            /\ cmd' = cmd]_vars

\* C8 witness: a move-function request has failed and its notification was
\* shown; a rename request is pending on the same connection and a restart is
\* in progress.
C8_Witness ==
    /\ cmd.kind = "moveFunction"
    /\ cmd.result = "failed"
    /\ "Move failed" \in messages
    /\ ren.pc = "await"
    /\ ren.reply = "pending"
    /\ ren.target = cmd.target
    /\ InFlight(1)

\* C9: every request is sent on the connection `client` holds in the step
\* that sends it (for each pair of a rename batch, and for the commands after
\* their input box); no request stays pending on a connection that has
\* stopped; and a request lost with its connection ends in the handler's
\* catch: no edit is added and the supervisor is unchanged.
C9_CurrentConnectionAtCallTime ==
    /\ [](/\ cmd.reply = "pending" =>
               conns[cmd.target].state \in {"Starting", "Running", "Stopping"}
          /\ ren.reply = "pending" =>
               conns[ren.target].state \in {"Starting", "Running", "Stopping"})
    /\ [][/\ (cmd.pc # "await" /\ cmd'.pc = "await") => cmd'.target = client
          /\ Len(sent') > Len(sent) => ren'.target = client
          /\ (cmd.pc = "await" /\ cmd.reply = "lost" /\ cmd'.pc = "done") =>
               /\ cmd'.result = "failed"
               /\ UNCHANGED <<client, conns, isRestarting, rpc, wedit>>
          /\ (ren.pc = "await" /\ ren.reply = "lost"
                /\ (ren'.idx # ren.idx \/ ren'.pc = "done")) =>
               UNCHANGED <<client, conns, isRestarting, rpc, wedit>>]_vars

\* C9 witness: a restart replaced the connection while a command waited for
\* its input and while a rename request was pending: the command's request
\* went to the new connection, and the rename request, lost with the old
\* connection, ended in the catch with no edit.
C9_Witness ==
    /\ cmd.pc = "await"
    /\ cmd.entry = 1
    /\ cmd.target = 2
    /\ client = 2
    /\ ren.pc = "done"
    /\ Len(sent) = 1
    /\ wedit = <<>>
    /\ "Elm file rename error" \in log

\* '.elm' are the last four characters of the path
HasElmSuffix(p) ==
    /\ Len(p) >= 4
    /\ p[Len(p) - 3] = "."
    /\ p[Len(p) - 2] = "e"
    /\ p[Len(p) - 1] = "l"
    /\ p[Len(p)] = "m"
SourcePairs(event) ==
    {i \in 1..Len(event) :
        HasElmSuffix(PairTable[event[i]].old) /\ HasElmSuffix(PairTable[event[i]].new)}

\* C10: every command sent for a rename event belongs to a pair whose old and
\* new path both end with '.elm', at most one command is sent per such pair,
\* and an event without such a pair returns before event.waitUntil: nothing
\* is sent and the rename is not delayed.
C10_NonSourceNeverSent ==
    /\ \A i \in 1..Len(sent) :
          /\ HasElmSuffix(PairTable[sent[i].pair].old)
          /\ HasElmSuffix(PairTable[sent[i].pair].new)
    /\ Len(sent) <= Cardinality(SourcePairs(ren.event))
    /\ (ren.pc # "idle" /\ SourcePairs(ren.event) = {}) =>
          (ren.pc = "skipped" /\ sent = <<>>)

\* C10 witness: an event of a source pair and a non-source pair was processed
\* to the end with one command sent.
C10_Witness ==
    /\ ren.pc = "done"
    /\ Len(ren.event) = 2
    /\ Cardinality(SourcePairs(ren.event)) = 1
    /\ Len(sent) = 1

\* the source pairs of an event, in the order of the event
SourceSeq(event) ==
    SelectSeq(event, LAMBDA i : HasElmSuffix(PairTable[i].old) /\ HasElmSuffix(PairTable[i].new))

\* What the command of each source pair of PairTable has to be: the old file's
\* URI with the new base name when the directory is the same, and otherwise
\* the old file's URI with the new path relative to the workspace root /p that
\* owns the old file, or the absolute new path when no root owns it.
ExpectedCommand(i) ==
    CASE i = 1 -> [command |-> "elm.renameFile",
                   arguments |-> << <<"file://", "/", "p", "/", "A", ".", "e", "l", "m">>,
                                    <<"B", ".", "e", "l", "m">> >>]
      [] i = 2 -> [command |-> "elm.moveFile",
                   arguments |-> << <<"file://", "/", "p", "/", "A", ".", "e", "l", "m">>,
                                    <<"s", "/", "A", ".", "e", "l", "m">> >>]
      [] i = 3 -> [command |-> "elm.moveFile",
                   arguments |-> << <<"file://", "/", "q", "/", "A", ".", "e", "l", "m">>,
                                    <<"/", "p", "/", "B", ".", "e", "l", "m">> >>]
      [] i = 7 -> [command |-> "elm.moveFile",
                   arguments |-> << <<"file://", "/", "p", "/", "A", ".", "e", "l", "m">>,
                                    <<".", ".", "/", "q", "/", "A", ".", "e", "l", "m">> >>]

\* C11: the commands sent for a rename event are, in order, one per source
\* pair of the event: elm.renameFile with (old URI, new base name) when old
\* and new directory are equal, elm.moveFile with (old URI, new path relative
\* to the owning root, or absolute when no root owns the old file) otherwise;
\* while a pair's request is awaited one command per pair so far was sent, and
\* when the batch is done every source pair has had exactly one.
C11_OneCommandPerSourcePair ==
    LET src == SourceSeq(ren.event) IN
    /\ Len(sent) <= Len(src)
    /\ \A j \in 1..Len(sent) :
          /\ sent[j].pair = src[j]
          /\ [command |-> sent[j].command, arguments |-> sent[j].arguments]
                = ExpectedCommand(src[j])
    /\ ren.pc = "await" => Len(sent) = ren.idx
    /\ ren.pc = "done" => Len(sent) = Len(src)

\* C11 witness: a batch of a rename in place, a pair that is not a source
\* pair, a move inside the workspace and a move out of it was processed to
\* the end: three commands were sent.
C11_Witness ==
    /\ ren.pc = "done"
    /\ Len(ren.event) = 4
    /\ Len(sent) = 3
    /\ sent[1].command = "elm.renameFile"
    /\ sent[2].command = "elm.moveFile"
    /\ sent[3].arguments[2] = <<".", ".", "/", "q", "/", "A", ".", "e", "l", "m">>

\* the edits a batch has to hold for its pairs that succeeded, pair after pair
RECURSIVE SuccessfulEdits(_, _)
SuccessfulEdits(outcomes, k) ==
    IF k > Len(outcomes) THEN <<>>
    ELSE (IF outcomes[k] = "changes"
            THEN <<[pair |-> k, edit |-> 1], [pair |-> k, edit |-> 2]>> ELSE <<>>)
         \o SuccessfulEdits(outcomes, k + 1)

\* C12: the workspace edit is handed to the editor at most once, and only by
\* the step that processes the last pair of the batch; nothing is handed over
\* while a pair is still to be processed; and the edit handed over is the one
\* accumulated over the whole batch: restricted to the pairs that succeeded
\* it is their edits, pair after pair, each in the order the server returned
\* them.
C12_OneEditAfterLastPair ==
    /\ [](/\ Len(ren.returned) <= 1
          /\ (ren.returned # <<>>) <=> (ren.pc = "done")
          /\ ren.pc = "done" =>
                /\ Len(ren.outcomes) = Len(ren.files)
                /\ ren.returned[1] = wedit
                /\ SelectSeq(ren.returned[1], LAMBDA e : ren.outcomes[e.pair] = "changes")
                     = SuccessfulEdits(ren.outcomes, 1))
    /\ [][ren.returned' # ren.returned =>
            /\ ren.pc = "await"
            /\ ren.idx = Len(ren.files)
            /\ ren'.pc = "done"]_vars

\* C12 witness: a batch of three source pairs that all succeeded was handed
\* over as one edit of six replacements.
C12_Witness ==
    /\ ren.pc = "done"
    /\ ren.outcomes = <<"changes", "changes", "changes">>
    /\ Len(ren.returned) = 1
    /\ Len(ren.returned[1]) = 6

\* s is a prefix of t
IsPrefix(s, t) == Len(s) <= Len(t) /\ SubSeq(t, 1, Len(s)) = s

\* C13: when the processing of a pair throws (the request fails, or the
\* result cannot be read), the error is logged, the edits accumulated so far
\* are kept, and the next pair's request is sent in the same step when there
\* is a next pair; a batch that is done has processed every one of its pairs
\* and sent a command for each.
C13_PairFailureIsIsolated ==
    /\ [][(/\ Len(ren'.outcomes) = Len(ren.outcomes) + 1
           /\ ren'.outcomes[Len(ren'.outcomes)] \in {"throw", "malformed"}) =>
            /\ "Elm file rename error" \in log'
            /\ IsPrefix(wedit, wedit')
            /\ ren.idx < Len(ren.files) =>
                  /\ ren'.pc = "await"
                  /\ ren'.idx = ren.idx + 1
                  /\ Len(sent') = Len(sent) + 1
            /\ ren.idx = Len(ren.files) => ren'.pc = "done"]_vars
    /\ [](ren.pc = "done" =>
            /\ Len(ren.outcomes) = Len(ren.files)
            /\ Len(sent) = Len(ren.files)
            /\ \A k \in 1..Len(ren.outcomes) :
                  ren.outcomes[k] = "changes" =>
                     \E j \in 1..Len(ren.returned[1]) : ren.returned[1][j].pair = k)

\* C13 witness: the second of three pairs threw; the batch was processed to
\* the end and the edit handed over holds the edits of the first and of the
\* third pair.
C13_Witness ==
    /\ ren.pc = "done"
    /\ ren.outcomes = <<"changes", "throw", "changes">>
    /\ "Elm file rename error" \in log
    /\ Len(sent) = 3
    /\ ren.returned = << <<[pair |-> 1, edit |-> 1], [pair |-> 1, edit |-> 2],
                           [pair |-> 3, edit |-> 1], [pair |-> 3, edit |-> 2]>> >>

\* C14: the step that resumes activate() after findServerBinary starts the
\* server from the configured path when that exists, whatever else exists;
\* otherwise from the installed binary when that exists; otherwise from the
\* development release build; otherwise from the development debug build;
\* and when none exists it starts nothing and shows the download prompt: no
\* error is shown and activate() goes on to ask the user.
C14_LocatorPrecedence ==
    [][(apc = "find" /\ apc' # "find") =>
         LET started == apc' = "start" /\ Len(conns') = 1 /\ client' = 1
             path == conns'[1].path
         IN IF "config" \in fsExists THEN started /\ path = "config"
            ELSE IF "installed" \in fsExists THEN started /\ path = "installed"
            ELSE IF "devRelease" \in fsExists THEN started /\ path = "devRelease"
            ELSE IF "devDebug" \in fsExists THEN started /\ path = "devDebug"
            ELSE /\ apc' = "prompt"
                 /\ conns' = <<>>
                 /\ messages' = {"Elm LSP binary not found. Download from GitHub?"}]_vars

\* C14 witness: every candidate exists and the server was started from the
\* configured path.
C14_Witness ==
    /\ fsExists = {"config", "installed", "devRelease", "devDebug"}
    /\ apc = "start"
    /\ conns[1].path = "config"

\* the target of each supported {os, architecture} pair, "none" for the others
SupportedTarget(platform, arch) ==
    CASE platform = "darwin" /\ arch = "arm64" -> "darwin-arm64"
      [] platform = "darwin" /\ arch = "x64" -> "darwin-x64"
      [] platform = "linux" /\ arch = "x64" -> "linux-x64"
      [] platform = "win32" /\ arch = "x64" -> "win32-x64"
      [] OTHER -> "none"

\* C15: once the installer has resolved its platform, a supported pair has
\* got its canonical target, and every other pair has made the installer fail
\* with the unsupported-platform error without a target.
C15_UnsupportedPairsFail ==
    inst.pc # "idle" =>
        IF SupportedTarget(inst.platform, inst.arch) = "none"
          THEN inst.pc = "failed" /\ inst.err = "Unsupported platform" /\ inst.target = ""
          ELSE inst.target = SupportedTarget(inst.platform, inst.arch)

\* C16: when a download has ended in failure (a request was made, the
\* installer has failed, and no deletion is still under way), the destination
\* file does not exist.
C16_NoFileLeftAfterFailure ==
    (inst.pc = "failed" /\ inst.requests > 0 /\ ~inst.unlinking)
        => "installed" \notin fsExists

\* C17: a download that is done has written exactly the body to the
\* destination, which exists, and has set the executable bit exactly on the
\* platforms other than win32; the executable bit is never set while the body
\* is not completely written; a redirect answer never makes the download
\* fail: it only makes the next request; and a download only fails in the
\* request phase by a non-redirect answer other than 200 or a request error.
C17_RedirectsThenBody ==
    /\ [](/\ inst.pc = "done" =>
                /\ inst.data = inst.body
                /\ "installed" \in fsExists
                /\ inst.exec <=> (inst.platform \in {"darwin", "linux"})
          /\ inst.exec => inst.data = inst.body)
    /\ [][/\ inst'.redirects # inst.redirects =>
                /\ inst'.redirects = inst.redirects + 1
                /\ inst'.requests = inst.requests + 1
                /\ inst'.pc = "request"
                /\ inst'.err = "none"
                /\ inst'.data = inst.data
          /\ (inst.pc = "request" /\ inst'.pc = "failed") =>
                /\ inst'.redirects = inst.redirects
                /\ inst'.err \in {"Download failed", "request error"}]_vars

\* C17 witness: after MaxRedirects redirects the two chunks of the body were
\* written and the file made executable.
C17_Witness ==
    /\ inst.pc = "done"
    /\ inst.redirects = MaxRedirects
    /\ inst.requests = MaxRedirects + 1
    /\ inst.data = <<"b1", "b2">>
    /\ inst.exec

\* the asset each target needs
ExpectedAsset(target, platform) ==
    CASE target = "darwin-arm64" -> "elm_lsp-darwin-arm64"
      [] target = "darwin-x64" -> "elm_lsp-darwin-x64"
      [] target = "linux-x64" -> "elm_lsp-linux-x64"
      [] target = "win32-x64" -> "elm_lsp-win32-x64.exe"

\* C18: the installer goes on to the download only when the release carries
\* the asset of its target (with .exe on win32); when the release answers
\* without it, the installer fails in that step with the no-binary error that
\* lists exactly the asset names of the release, no request for a download is
\* ever made and the destination is neither created nor written.
C18_MissingAssetFails ==
    /\ [][/\ (inst.pc = "fetch" /\ inst'.pc = "request") =>
                ExpectedAsset(inst.target, inst.platform) \in inst.assets
          /\ (inst.pc = "fetch" /\ inst'.err = "No binary found") =>
                /\ ExpectedAsset(inst.target, inst.platform) \notin inst.assets
                /\ inst'.pc = "failed"
                /\ inst'.available = inst.assets
                /\ inst'.requests = 0
                /\ UNCHANGED fsExists
                /\ inst'.data = inst.data]_vars
    /\ [](inst.err = "No binary found" =>
            /\ inst.pc = "failed"
            /\ inst.requests = 0
            /\ "installed" \notin fsExists
            /\ inst.data = <<>>
            /\ ~inst.exec)

\* C18 witness: on win32 the release carries the asset without the .exe
\* extension and two others: the installer failed listing the three names.
C18_Witness ==
    /\ inst.platform = "win32"
    /\ inst.err = "No binary found"
    /\ inst.available = {"elm_lsp-win32-x64", "elm_lsp-linux-x64", "elm_lsp-darwin-arm64"}
    /\ inst.requests = 0

\* the decimal digits of 2..9
Digit == <<"1", "2", "3", "4", "5", "6", "7", "8", "9">>

\* C19: a label resolved from a references response of length N (null counts
\* as 0): for N = 0 the lens has no command to run and no arguments; for
\* N = 1 its title is "1 reference"; for N >= 2 its title is N followed by
\* " references"; and for every N >= 1 its command is
\* editor.action.findReferences with the document and the start position of
\* the lens, which is the start of the symbol's range the lens was made for.
C19_ReferenceLabel ==
    (cmd.kind = "references" /\ cmd.pc = "done" /\ cmd.result = "ok") =>
        LET n == IF cmd.response = -1 THEN 0 ELSE cmd.response
            l == cmd.lens
        IN /\ n = 0 => (l.command = "" /\ l.arguments = <<>>)
           /\ n = 1 => l.title = "1 reference"
           /\ n >= 2 => l.title = Digit[n] \o " references"
           /\ n >= 1 =>
                /\ l.command = "editor.action.findReferences"
                /\ l.arguments = <<"document.uri", <<l.range[1], l.range[2]>> >>
                /\ \E j \in 1..Len(cmd.lenses) : cmd.lenses[j] = l.range

\* C19 witness: the lens of the symbol declared at line 6, character 2, was
\* resolved from a response of one location.
C19_Witness ==
    /\ cmd.kind = "references"
    /\ cmd.result = "ok"
    /\ cmd.response = 1
    /\ cmd.lens.title = "1 reference"
    /\ cmd.lens.arguments = <<"document.uri", <<6, 2>> >>

\* C20: a request of the Reference Annotator that fails (a protocol error, or
\* a request lost with its connection) is never passed on to the editor: the
\* operation returns, provideCodeLenses with an empty list, resolveCodeLens
\* with its lens given an empty title, no command and no arguments; no
\* notification is shown and the supervisor is not touched.
C20_AnnotatorErrorsDegrade ==
    [][(/\ cmd.kind \in {"documentSymbol", "references"}
        /\ cmd.pc = "await"
        /\ cmd'.pc = "done"
        /\ cmd'.result # "ok") =>
         /\ cmd'.result = "failed"
         /\ cmd.kind = "documentSymbol" => cmd'.lenses = <<>>
         /\ cmd.kind = "references" =>
               /\ cmd'.lens.title = ""
               /\ cmd'.lens.command = ""
               /\ cmd'.lens.arguments = <<>>
               /\ cmd'.lens.range = cmd.lens.range
         /\ UNCHANGED <<messages, client, conns, isRestarting>>]_vars

\* C20 witness: the references request of a lens failed after the symbol
\* request of an earlier round had failed too (its error is in the log): the
\* lens came back with its range and an empty command.
C20_Witness ==
    /\ cmd.kind = "references"
    /\ cmd.result = "failed"
    /\ cmd.lens.range = <<1, 0, 3, 5>>
    /\ cmd.lens.command = ""
    /\ "CodeLens error" \in log
    /\ conns[1].state = "Running"

\* the binary a resolution finds among the locations that come and go
FreshPath(exists) ==
    IF "config" \in exists THEN "config"
    ELSE IF "installed" \in exists THEN "installed"
    ELSE "none"

\* C21: a restart resolves the binary only once the stop it asked for has
\* completed (or there was nothing running to stop), and starts a connection
\* only from the resolution step: at that step the connection it replaces is
\* stopped, no connection is live, and the new connection's path is the one
\* the file system gives at that moment, whatever path the previous start
\* used.
C21_StopResolveStart ==
    [][\A r \in RestartIds :
         /\ (rpc[r] # "find" /\ rpc'[r] = "find") =>
               \/ /\ rpc[r] = "stop"
                  /\ conns[rawait[r]].state = "Stopped"
                  /\ conns[rawait[r]].stopP = "ok"
               \/ /\ rpc[r] = "idle"
                  /\ client # NoClient => conns[client].state = "Stopped"
         /\ (rpc[r] # "start" /\ rpc'[r] = "start") =>
               /\ rpc[r] = "find"
               /\ client # NoClient => conns[client].state = "Stopped"
               /\ LiveConns = {}
               /\ Len(conns') = Len(conns) + 1
               /\ conns'[client'].path = FreshPath(fsExists)
               /\ conns'[client'].state = "Starting"]_vars

\* C21 witness: the first connection ran the installed binary; after it was
\* stopped the configured path had appeared, and the restart started the
\* second connection from the configured path.
C21_Witness ==
    /\ Len(conns) = 2
    /\ conns[1].path = "installed"
    /\ conns[1].state = "Stopped"
    /\ conns[2].path = "config"
    /\ rpc[1] = "restarted"

\* C22: isRestarting is true exactly while one restart invocation is in
\* flight (never two); the step in which an invocation finishes, completed,
\* without a binary or by a throw, leaves the flag cleared; and an invocation
\* is rejected only while another is in flight.
C22_FlagAlwaysReleased ==
    /\ [](/\ isRestarting <=> (\E r \in RestartIds : InFlight(r))
          /\ Cardinality({r \in RestartIds : InFlight(r)}) <= 1)
    /\ [][\A r \in RestartIds :
            /\ (InFlight(r) /\ ~InFlight(r)') =>
                  (rpc'[r] \in {"restarted", "nobinary", "threw"} /\ ~isRestarting')
            /\ (rpc[r] # "rejected" /\ rpc'[r] = "rejected") =>
                  \E q \in RestartIds \ {r} : InFlight(q)]_vars

\* C22 witness: the first restart threw, and the second, issued afterwards,
\* was admitted and has completed; the flag is clear.
C22_Witness ==
    /\ rpc[1] = "threw"
    /\ rpc[2] = "restarted"
    /\ ~isRestarting

\* C23: a connection is started from the storage-directory path only when the
\* download that wrote the file there is done and the file holds the whole
\* body; after a failed install the locator does not return that path.
C23_LocatesOnlyCompleteInstall ==
    \A c \in ConnIds :
        conns[c].path = "installed" => (inst.pc = "done" /\ inst.data = inst.body)

\* C24: the step that resumes the installer after the release request either
\* goes on with a release, or fails with the request's own error or with the
\* parse-failure error (or, the release read, with the no-binary error of the
\* asset lookup): it never fails with any other error.
C24_FetcherFailureKinds ==
    [][(inst.pc = "fetch" /\ inst'.pc # "fetch") =>
         \/ inst'.pc = "request"
         \/ /\ inst'.pc = "failed"
            /\ inst'.err \in {"request error", "Failed to parse release info",
                               "No binary found"}]_vars

\* C25: the promise given to event.waitUntil is never rejected: the
\* interception is idle, has returned without delaying the rename, awaits a
\* request, or is done; while it awaits, a request is outstanding or its
\* failure is about to be delivered; when it is done it has handed over one
\* workspace edit; and, every request being eventually answered or failed, an
\* interception that awaits is eventually done.
C25_RenamePromiseNeverRejects ==
    /\ [](/\ ren.pc \in {"idle", "skipped", "await", "done"}
          /\ ren.pc = "await" => ren.reply \in {"pending", "lost"}
          /\ ren.pc = "done" => Len(ren.returned) = 1)
    /\ ((ren.pc = "await") ~> (ren.pc = "done"))

\* C25 witness: every request of a batch of three pairs failed, the
\* connection having closed, and the interception is done with an empty edit.
C25_Witness ==
    /\ ren.pc = "done"
    /\ ren.outcomes = <<"throw", "throw", "throw">>
    /\ ren.returned = << <<>> >>
    /\ "LSP connection closed unexpectedly" \in log

\* C26: an activation that finds no binary shows the download prompt and no
\* error; the step that answers the prompt creates no connection and shows
\* nothing; and an activation that ended because the prompt was dismissed or
\* answered with 'Configure Path' stays ended with no connection created, no
\* `client`, no download begun and nothing shown but the prompt.
C26_NotFoundIsNotAnError ==
    /\ [](/\ apc = "prompt" =>
                /\ messages = {"Elm LSP binary not found. Download from GitHub?"}
                /\ conns = <<>>
          /\ apc \in {"noop", "settings"} =>
                /\ conns = <<>>
                /\ client = NoClient
                /\ inst.pc = "idle"
                /\ messages = {"Elm LSP binary not found. Download from GitHub?"})
    /\ [][/\ (apc = "prompt" /\ apc' # "prompt") =>
                /\ apc' \in {"download", "settings", "noop"}
                /\ UNCHANGED <<client, conns, messages, inst, fsExists>>
          /\ apc \in {"noop", "settings"} => apc' = apc]_vars

\* C26 witness: the prompt was answered with 'Configure Path'; a binary has
\* appeared since, and nothing was started.
C26_Witness ==
    /\ apc = "settings"
    /\ conns = <<>>
    /\ "config" \in fsExists

====
